---- MODULE Spec2Model ----
(***************************************************************************)
(* Model of audio_converter_Streamlit.py: one Streamlit session running    *)
(* main() over and over (every widget interaction reruns the script),      *)
(* the ffmpeg locator check_ffmpeg, the per-item converter convert_to_m4a, *)
(* the batch loop convert_files with its temporary directory, and the      *)
(* archive packager create_zip_file.                                       *)
(*                                                                         *)
(* File names are sequences of tokens, "song.wav" = <<"song",".","wav">>,  *)
(* so that Path.stem is computed and not assumed.  The bytes of the k-th   *)
(* uploaded item are written k; the m4a the tool produces from them is     *)
(* written k as well (the content of an output file names the item it was  *)
(* transcoded from).                                                       *)
(***************************************************************************)
EXTENDS Integers, Sequences, FiniteSets, TLC

VARIABLES
    session,          \* st.session_state: has / ffmpeg_checked / ffmpeg_path
    pc,               \* position of the script run
    idx,              \* check_ffmpeg: index of the candidate being probed
    probed,           \* check_ffmpeg: results of the probes made by this call
    checkCalls,       \* number of calls of check_ffmpeg in this session
    last_run,         \* how the last finished run of main ended
    uploaded_files,   \* convert_files: names of the uploaded items, in order
    i,                \* convert_files: number of items whose body has run
    progress,         \* value last given to progress_bar.progress
    converted_files,  \* convert_files: list of output paths
    errors,           \* convert_files: list of error messages
    results,          \* what happened to each processed item (environment)
    tool_calls,       \* the convert_to_m4a invocations of this batch
    ret,              \* what the last loop body got from convert_to_m4a
    temp_dir,         \* the TemporaryDirectory: exists, input/, output/
    download,         \* the payload given to st.download_button
    raised            \* an exception is propagating out of convert_files

vars == <<session, pc, idx, probed, checkCalls, last_run, uploaded_files, i,
          progress, converted_files, errors, results, tool_calls, ret,
          temp_dir, download, raised>>

batchVars == <<uploaded_files, i, progress, converted_files, errors, results,
               tool_calls, ret, temp_dir, download, raised>>

\* ------------------------------------------------------------------ bounds

\* Largest number of files uploaded in one batch.
MaxFiles == 3

\* Largest number of calls of check_ffmpeg followed in one session.
MaxChecks == 2

\* ------------------------------------------------------------------ values

None == "None"

\* The candidate list of check_ffmpeg, in its order.
ffmpeg_paths ==
    << "ffmpeg", "../ffmpeg.exe", "../ffmpeg",
       "../ffmpeg/bin/ffmpeg.exe", "../ffmpeg/bin/ffmpeg" >>

\* What subprocess.run([candidate, '-version'], check=True) can do: return
\* (exit status 0), raise CalledProcessError (non-zero exit status), raise
\* FileNotFoundError, or raise another OSError (PermissionError when the
\* candidate is a directory or is not executable, exec format error, ...).
ProbeResults == {"exit0", "nonzero", "notfound", "oserror"}

\* The except clause of check_ffmpeg.
ProbeCaught(r) == r \in {"nonzero", "notfound"}

\* Names the uploader can hand over (type=['wav','ogg','mp3']).
Names ==
    { <<"song", ".", "wav">>, <<"song", ".", "mp3">>, <<"a", ".", "b", ".", "ogg">> }

Batches == UNION { [1..n -> Names] : n \in 1..MaxFiles }

\* What can happen to one item in the loop body: the temporary file cannot be
\* written (exception in the body), subprocess.run raises (caught inside
\* convert_to_m4a), the tool exits non-zero, the tool exits zero.
ItemResults == {"write_error", "run_error", "nonzero", "exit0"}

NoPath == [dir |-> "", name |-> << >>]

NoRet == [called |-> FALSE, success |-> FALSE, output_path |-> NoPath, error_msg |-> None]

NoDir == [exists |-> FALSE, input |-> {}, output |-> {}]

NoDownload == [kind |-> "none"]

\* ------------------------------------------------------------------ helpers

\* pathlib's Path.stem: the name up to its last dot, unless that dot is the
\* first or the last character.
Stem(name) ==
    LET dots == {j \in 1..Len(name) : name[j] = "."}
        last == IF dots = {} THEN 0 ELSE CHOOSE j \in dots : \A m \in dots : m <= j
    IN  IF last > 1 /\ last < Len(name) THEN SubSeq(name, 1, last - 1) ELSE name

\* The output path with the whole input name kept (extension not stripped).
OutputPath_keepext(input_name, output_dir) ==
    [dir |-> output_dir, name |-> input_name \o <<".", "m4a">>]

\* output_path = Path(output_dir) / f"{input_path.stem}.m4a"
OutputPath(input_name, output_dir) ==
    [dir |-> output_dir, name |-> Stem(input_name) \o <<".", "m4a">>]

\* os.path.basename
basename(path) == path.name

\* os.path.exists, for a path of the output directory
exists(path, dir) == dir.exists /\ \E f \in dir.output : f.name = path.name

\* The bytes read from a path of the output directory.
ReadFile(path, dir) == (CHOOSE f \in dir.output : f.name = path.name).data

\* The output directory after the tool has run for item k: ffmpeg -y writes
\* the output file, replacing what was there, when it exits zero.
RunTool(dir, path, r, k) ==
    IF r = "exit0"
    THEN [dir EXCEPT !.output =
            {f \in dir.output : f.name # path.name} \cup {[name |-> path.name, data |-> k]}]
    ELSE dir

\* convert_to_m4a without the test of result.returncode.
convert_to_m4a_noexit(input_name, output_dir, r) ==
    IF r \in {"exit0", "nonzero"}
    THEN [called |-> TRUE, success |-> TRUE,
          output_path |-> OutputPath(input_name, output_dir), error_msg |-> None]
    ELSE [called |-> TRUE, success |-> FALSE, output_path |-> NoPath, error_msg |-> "exception"]

\* The value convert_to_m4a returns: (success, output path, error message).
convert_to_m4a(input_name, output_dir, r) ==
    IF r = "exit0"
    THEN [called |-> TRUE, success |-> TRUE,
          output_path |-> OutputPath(input_name, output_dir), error_msg |-> None]
    ELSE IF r = "nonzero"
    THEN [called |-> TRUE, success |-> FALSE, output_path |-> NoPath, error_msg |-> "stderr"]
    ELSE [called |-> TRUE, success |-> FALSE, output_path |-> NoPath, error_msg |-> "exception"]

RECURSIVE ZipEntries(_, _)
\* create_zip_file: one entry per listed path that exists, under its base name.
ZipEntries(file_paths, dir) ==
    IF file_paths = << >> THEN << >>
    ELSE LET p == Head(file_paths)
         IN  (IF exists(p, dir)
              THEN << [name |-> basename(p), data |-> ReadFile(p, dir)] >>
              ELSE << >>) \o ZipEntries(Tail(file_paths), dir)

\* create_zip_file that leaves the first listed path out.
create_zip_file_skipfirst(file_paths, dir) == ZipEntries(Tail(file_paths), dir)

create_zip_file(file_paths, dir) == ZipEntries(file_paths, dir)

\* The download section of convert_files.
BuildDownload(files, dir) ==
    IF files = << >> THEN NoDownload
    ELSE IF Len(files) = 1
    THEN [kind |-> "single", file_name |-> basename(files[1]), mime |-> "audio/mp4",
          data |-> ReadFile(files[1], dir)]
    ELSE [kind |-> "zip", file_name |-> "converted_audio_files.zip",
          mime |-> "application/zip", entries |-> create_zip_file(files, dir)]

\* A directory removed by hand on the normal path only (no with block).
TemporaryDirectoryExit_normalonly(dir, exc) == IF exc THEN dir ELSE NoDir

\* Leaving the `with tempfile.TemporaryDirectory()` block, normally or by an
\* exception: the directory and everything in it is removed.
TemporaryDirectoryExit(dir, exc) == NoDir

\* A failure that is shown but not kept.
RecordFailure_dropped(errs, name, msg) == errs

\* errors.append(f"... {uploaded_file.name}: {error_msg}")
RecordFailure(errs, name, msg) == Append(errs, [name |-> name, msg |-> msg])

\* ------------------------------------------------------------------ state

Init ==
    /\ session = [has |-> FALSE, ffmpeg_checked |-> FALSE, ffmpeg_path |-> None]
    /\ pc = "idle"
    /\ idx = 1
    /\ probed = << >>
    /\ checkCalls = 0
    /\ last_run = "none"
    /\ uploaded_files = << >>
    /\ i = 0
    /\ progress = [num |-> 0, den |-> 1]
    /\ converted_files = << >>
    /\ errors = << >>
    /\ results = << >>
    /\ tool_calls = << >>
    /\ ret = NoRet
    /\ temp_dir = NoDir
    /\ download = NoDownload
    /\ raised = FALSE

\* A run of main starts (first load, or a rerun after a widget changed): the
\* session keys are created when missing, and check_ffmpeg is entered unless
\* a result is cached.
main_begin ==
    /\ pc = "idle"
    /\ session.ffmpeg_checked \/ checkCalls < MaxChecks
    /\ session' = [session EXCEPT !.has = TRUE]
    /\ last_run' = "none"
    /\ probed' = << >>
    /\ idx' = 1
    /\ IF session.ffmpeg_checked
       THEN pc' = "gate" /\ UNCHANGED checkCalls
       ELSE pc' = "probe" /\ checkCalls' = checkCalls + 1
    /\ UNCHANGED batchVars

\* One turn of the loop of check_ffmpeg, or its final `return None`.  An
\* exception the except clause does not name leaves check_ffmpeg and main
\* before ffmpeg_checked is set.  The loop variable ends with the call.
check_ffmpeg ==
    /\ pc = "probe"
    /\ IF idx > Len(ffmpeg_paths)
       THEN /\ session' = [session EXCEPT !.ffmpeg_path = None, !.ffmpeg_checked = TRUE]
            /\ pc' = "gate"
            /\ idx' = 1
            /\ UNCHANGED <<probed, last_run>>
       ELSE \E r \in ProbeResults :
            /\ probed' = Append(probed, r)
            /\ IF r = "exit0"
               THEN /\ session' = [session EXCEPT !.ffmpeg_path = ffmpeg_paths[idx],
                                                  !.ffmpeg_checked = TRUE]
                    /\ pc' = "gate"
                    /\ idx' = 1
                    /\ UNCHANGED last_run
               ELSE IF ProbeCaught(r)
               THEN /\ idx' = idx + 1
                    /\ UNCHANGED <<session, pc, last_run>>
               ELSE /\ pc' = "idle"
                    /\ last_run' = "check_crashed"
                    /\ idx' = 1
                    /\ UNCHANGED session
    /\ UNCHANGED <<checkCalls, batchVars>>

\* A test for the empty string only, which lets None through.
Blocked_emptyonly(path) == path = ""

\* `if not st.session_state.ffmpeg_path:` of main.
Blocked(path) == path = None

\* main after the locator: the blocking error and return, or the uploader and
\* the convert button; convert_files is entered (temporary directory and its
\* two subdirectories made, progress bar at 0, both lists empty) when files
\* are uploaded and the button is pressed.
main_gate ==
    /\ pc = "gate"
    /\ probed' = << >>
    /\ IF Blocked(session.ffmpeg_path)
       THEN /\ pc' = "idle"
            /\ last_run' = "blocked"
            /\ UNCHANGED batchVars
       ELSE \E files \in Batches \cup {<< >>}, button \in BOOLEAN :
            IF files # << >> /\ button
            THEN /\ pc' = "loop"
                 /\ uploaded_files' = files
                 /\ temp_dir' = [exists |-> TRUE, input |-> {}, output |-> {}]
                 /\ progress' = [num |-> 0, den |-> 1]
                 /\ converted_files' = << >>
                 /\ errors' = << >>
                 /\ i' = 0
                 /\ UNCHANGED <<last_run, results, tool_calls, ret, download, raised>>
            ELSE /\ pc' = "idle"
                 /\ last_run' = "done"
                 /\ UNCHANGED batchVars
    /\ UNCHANGED <<session, idx, checkCalls>>

\* The loop head with progress = i / total_files.
loop_head_offbyone ==
    /\ pc = "loop"
    /\ i < Len(uploaded_files)
    /\ progress' = [num |-> i, den |-> Len(uploaded_files)]
    /\ pc' = "item"
    /\ UNCHANGED <<session, idx, probed, checkCalls, last_run, uploaded_files, i,
                   converted_files, errors, results, tool_calls, ret, temp_dir,
                   download, raised>>

\* Top of the for loop: progress = (i + 1) / total_files is shown before the
\* item is processed.
loop_head ==
    /\ pc = "loop"
    /\ i < Len(uploaded_files)
    /\ progress' = [num |-> i + 1, den |-> Len(uploaded_files)]
    /\ pc' = "item"
    /\ UNCHANGED <<session, idx, probed, checkCalls, last_run, uploaded_files, i,
                   converted_files, errors, results, tool_calls, ret, temp_dir,
                   download, raised>>

\* The loop body without the except clause: an exception while the temporary
\* file is written leaves the loop and convert_files.
loop_body_nocatch(r) ==
    LET k    == i + 1
        name == uploaded_files[k]
        out  == convert_to_m4a(name, "output", r)
    IN  /\ pc = "item"
        /\ results' = Append(results, r)
        /\ IF r = "write_error"
           THEN /\ pc' = "leave"
                /\ raised' = TRUE
                /\ ret' = NoRet
                /\ UNCHANGED <<i, errors, converted_files, tool_calls, temp_dir>>
           ELSE /\ pc' = "loop"
                /\ i' = k
                /\ ret' = out
                /\ tool_calls' = Append(tool_calls,
                        [tool |-> session.ffmpeg_path, input |-> name, item |-> k])
                /\ temp_dir' = RunTool([temp_dir EXCEPT !.input = @ \cup {name}],
                                       OutputPath(name, "output"), r, k)
                /\ IF out.success
                   THEN /\ converted_files' = Append(converted_files, out.output_path)
                        /\ UNCHANGED errors
                   ELSE /\ errors' = RecordFailure(errors, name, out.error_msg)
                        /\ UNCHANGED converted_files
                /\ UNCHANGED raised
        /\ UNCHANGED <<session, idx, probed, checkCalls, last_run, uploaded_files,
                       progress, download>>

\* The try block of the loop body for item i + 1, with result r: the upload is
\* written to input/, convert_to_m4a runs the tool on it, and the outcome goes
\* to converted_files or to errors; an exception goes to errors as well.
loop_body(r) ==
    LET k    == i + 1
        name == uploaded_files[k]
        out  == convert_to_m4a(name, "output", r)
    IN  /\ pc = "item"
        /\ results' = Append(results, r)
        /\ i' = k
        /\ pc' = "loop"
        /\ IF r = "write_error"
           THEN /\ errors' = RecordFailure(errors, name, "exception")
                /\ ret' = NoRet
                /\ UNCHANGED <<converted_files, tool_calls, temp_dir>>
           ELSE /\ ret' = out
                /\ tool_calls' = Append(tool_calls,
                        [tool |-> session.ffmpeg_path, input |-> name, item |-> k])
                /\ temp_dir' = RunTool([temp_dir EXCEPT !.input = @ \cup {name}],
                                       OutputPath(name, "output"), r, k)
                /\ IF out.success
                   THEN /\ converted_files' = Append(converted_files, out.output_path)
                        /\ UNCHANGED errors
                   ELSE /\ errors' = RecordFailure(errors, name, out.error_msg)
                        /\ UNCHANGED converted_files
        /\ UNCHANGED <<session, idx, probed, checkCalls, last_run, uploaded_files,
                       progress, download, raised>>

convert_item == \E r \in ItemResults : loop_body(r)

\* After the loop: the result metrics and the download section.  Reading the
\* output files back can fail; that exception is not caught in convert_files.
show_results(read_ok) ==
    /\ pc = "loop"
    /\ i = Len(uploaded_files)
    /\ pc' = "leave"
    /\ IF converted_files # << >> /\ ~read_ok
       THEN raised' = TRUE /\ download' = NoDownload
       ELSE raised' = FALSE /\ download' = BuildDownload(converted_files, temp_dir)
    /\ UNCHANGED <<session, idx, probed, checkCalls, last_run, uploaded_files, i,
                   progress, converted_files, errors, results, tool_calls, ret,
                   temp_dir>>

convert_results == \E read_ok \in BOOLEAN : show_results(read_ok)

\* convert_files is left: the with block releases the temporary directory,
\* the locals go out of scope and the run of main ends.
convert_exit ==
    /\ pc = "leave"
    /\ temp_dir' = TemporaryDirectoryExit(temp_dir, raised)
    /\ pc' = "idle"
    /\ last_run' = IF raised THEN "crashed" ELSE "done"
    /\ uploaded_files' = << >>
    /\ i' = 0
    /\ progress' = [num |-> 0, den |-> 1]
    /\ converted_files' = << >>
    /\ errors' = << >>
    /\ results' = << >>
    /\ tool_calls' = << >>
    /\ ret' = NoRet
    /\ download' = NoDownload
    /\ raised' = FALSE
    /\ UNCHANGED <<session, idx, probed, checkCalls>>

Next ==
    \/ main_begin
    \/ check_ffmpeg
    \/ main_gate
    \/ loop_head
    \/ convert_item
    \/ convert_results
    \/ convert_exit

Spec == Init /\ [][Next]_vars

\* ------------------------------------------------------------------ claims

InBatch == pc \in {"loop", "item", "leave"}

total_files == Len(uploaded_files)

\* The items among the first k that the tool converted.
Succeeded(k) == {m \in 1..k : results[m] = "exit0"}

\* A name of the form <base>.<ext> with its extension taken off, and the path
\* section 4.2 of the specification derives from it.
StripExt(name) == SubSeq(name, 1, Len(name) - 2)

ClaimedPath(name) == [dir |-> "output", name |-> StripExt(name) \o <<".", "m4a">>]

RECURSIVE SuccessPaths(_)
SuccessPaths(k) ==
    IF k = 0 THEN << >>
    ELSE SuccessPaths(k - 1) \o
         (IF results[k] = "exit0" THEN << ClaimedPath(uploaded_files[k]) >> ELSE << >>)

RECURSIVE FailedNames(_)
FailedNames(k) ==
    IF k = 0 THEN << >>
    ELSE FailedNames(k - 1) \o
         (IF results[k] = "exit0" THEN << >> ELSE << uploaded_files[k] >>)

\* C1: every item of the batch is processed: the loop is left only after all
\* N items, whatever happened to the earlier ones, and every item whose
\* temporary file could be written was written and passed to convert_to_m4a.
C1_AllItemsProcessed ==
    InBatch =>
        /\ Len(results) = i
        /\ i <= total_files
        /\ pc = "leave" => i = total_files
        /\ \A k \in 1..Len(results) :
              results[k] # "write_error" =>
                 /\ uploaded_files[k] \in temp_dir.input
                 /\ \E c \in 1..Len(tool_calls) :
                       tool_calls[c].item = k /\ tool_calls[c].input = uploaded_files[k]

C1_Witness ==
    /\ pc = "leave"
    /\ results = <<"write_error", "run_error", "exit0">>
    /\ Len(tool_calls) = 2

\* C2: when the loop ends N outcomes are recorded, each in exactly one of the
\* two lists, so len(converted_files) + len(errors) = N, and each list holds
\* its items in upload order.
C2_OneOutcomePerItem ==
    InBatch =>
        /\ Len(converted_files) + Len(errors) = Len(results)
        /\ pc = "leave" => Len(converted_files) + Len(errors) = total_files
        /\ converted_files = SuccessPaths(Len(results))
        /\ [e \in 1..Len(errors) |-> errors[e].name] = FailedNames(Len(results))

C2_Witness ==
    /\ pc = "leave"
    /\ results = <<"exit0", "nonzero", "exit0">>
    /\ Len(converted_files) = 2
    /\ Len(errors) = 1

\* C3: once the locator has returned None, no run of main of the session
\* reaches the uploader or convert_files, no conversion is attempted, and
\* every run ends in the blocking "FFmpeg not found" state.
C3_BlockedWithoutTool ==
    (session.ffmpeg_checked /\ session.ffmpeg_path = None) =>
        /\ pc \in {"idle", "gate"}
        /\ tool_calls = << >>
        /\ uploaded_files = << >>
        /\ ~temp_dir.exists
        /\ pc = "idle" => last_run = "blocked"

C3_Witness ==
    /\ session.ffmpeg_checked
    /\ session.ffmpeg_path = None
    /\ pc = "idle"
    /\ last_run = "blocked"

\* C4: check_ffmpeg always ends by returning, and what it returns is the first
\* candidate in list order whose probe exited with status zero, or None when
\* no probe did.
C4_ReturnsFirstWorking ==
    /\ last_run # "check_crashed"
    /\ (pc = "gate" /\ probed # << >>) =>
          LET ok == {j \in 1..Len(probed) : probed[j] = "exit0"}
          IN  IF ok = {}
              THEN session.ffmpeg_path = None /\ Len(probed) = Len(ffmpeg_paths)
              ELSE \E j \in ok : /\ \A m \in ok : j <= m
                                 /\ session.ffmpeg_path = ffmpeg_paths[j]

\* C5: with one converted item the download is that file's bytes under its
\* base name as audio/mp4; with two or more it is converted_audio_files.zip
\* whose entry names are the base names of the converted items and of no
\* other; with none there is no download.
C5_DownloadPayload ==
    (pc = "leave" /\ ~raised) =>
        LET succ == Succeeded(total_files)
            n    == Cardinality(succ)
        IN  /\ n = 0 => download = NoDownload
            /\ n = 1 =>
                  LET k == CHOOSE m \in succ : TRUE
                  IN  download = [kind |-> "single",
                                  file_name |-> ClaimedPath(uploaded_files[k]).name,
                                  mime |-> "audio/mp4", data |-> k]
            /\ n >= 2 =>
                  /\ download.kind = "zip"
                  /\ download.file_name = "converted_audio_files.zip"
                  /\ download.mime = "application/zip"
                  /\ Len(download.entries) = n
                  /\ \A e \in 1..Len(download.entries) :
                        download.entries[e].name = SuccessPaths(total_files)[e].name

C5_Witness ==
    /\ pc = "leave"
    /\ ~raised
    /\ results = <<"exit0", "nonzero", "exit0">>
    /\ uploaded_files[1] # uploaded_files[3]
    /\ download.kind = "zip"
    /\ Len(download.entries) = 2

\* C6: the temporary directory is gone whenever convert_files is not running,
\* after a normal return and after an exception alike, and it is still there,
\* holding the files the payload was read from, when the payload is built.
C6_TempDirReleased ==
    /\ ~InBatch => temp_dir = NoDir
    /\ InBatch => temp_dir.exists
    /\ (pc = "leave" /\ download.kind = "single") =>
          \E f \in temp_dir.output :
              f.name = download.file_name /\ f.data = download.data
    /\ (pc = "leave" /\ download.kind = "zip") =>
          \A e \in 1..Len(download.entries) :
              \E f \in temp_dir.output :
                  f.name = download.entries[e].name /\ f.data = download.entries[e].data

C6_Witness ==
    /\ pc = "idle"
    /\ last_run = "crashed"
    /\ temp_dir = NoDir

\* C7: the progress shown once k items have been processed is k/N; it is in
\* (0, 1] from the first item on, never goes down during a batch, and is 1
\* when the batch is complete.
C7_Progress ==
    [][ /\ (pc' \in {"loop", "leave"} /\ i' >= 1) =>
              /\ progress'.num * Len(uploaded_files') = i' * progress'.den
              /\ 0 < progress'.num
              /\ progress'.num <= progress'.den
        /\ (InBatch /\ InBatch') =>
              progress.num * progress'.den <= progress'.num * progress.den
        /\ pc' = "leave" => progress'.num = progress'.den
      ]_vars

C7_Witness ==
    /\ pc = "loop"
    /\ total_files = 3
    /\ i = 2
    /\ progress = [num |-> 2, den |-> 3]

\* C8: check_ffmpeg is called at most once in a session, and every conversion
\* is invoked with the cached ffmpeg_path.
C8_CheckedOnce ==
    /\ checkCalls <= 1
    /\ \A c \in 1..Len(tool_calls) : tool_calls[c].tool = session.ffmpeg_path

\* C9: a success outcome carries the path output/<base name>.m4a and a file
\* exists there; a failure outcome carries no path; converted_files holds only
\* existing paths that came from successful conversions.
C9_SuccessHasFile ==
    /\ ret.called =>
          /\ ret.success <=> results[i] = "exit0"
          /\ ret.success =>
                /\ ret.output_path = ClaimedPath(uploaded_files[i])
                /\ \E f \in temp_dir.output : f.name = ret.output_path.name
          /\ ~ret.success => ret.output_path = NoPath
    /\ \A j \in 1..Len(converted_files) :
          /\ \E f \in temp_dir.output : f.name = converted_files[j].name
          /\ \E k \in Succeeded(Len(results)) :
                converted_files[j] = ClaimedPath(uploaded_files[k])

C9_Witness ==
    /\ pc = "loop"
    /\ i = 2
    /\ results = <<"nonzero", "exit0">>
    /\ uploaded_files[2] = <<"a", ".", "b", ".", "ogg">>
    /\ ret.success
    /\ ret.output_path.name = <<"a", ".", "b", ".", "m4a">>

\* C10: two converted items whose names agree up to the extension share one
\* output path: both are counted as succeeded, converted_files holds the path
\* twice, neither adds an error, and the file holds the later item's output
\* (as long as no later item of the same name has been run).
C10_CollisionOverwrites ==
    \A j \in 1..Len(results), k \in 1..Len(results) :
        (/\ j < k
         /\ results[j] = "exit0"
         /\ results[k] = "exit0"
         /\ StripExt(uploaded_files[j]) = StripExt(uploaded_files[k])) =>
            /\ converted_files[Cardinality(Succeeded(j))]
                  = converted_files[Cardinality(Succeeded(k))]
            /\ Len(converted_files) = Cardinality(Succeeded(Len(results)))
            /\ Len(errors) = Len(results) - Cardinality(Succeeded(Len(results)))
            /\ (\A m \in (k + 1)..Len(results) :
                   StripExt(uploaded_files[m]) # StripExt(uploaded_files[k])) =>
                  \E f \in temp_dir.output :
                      /\ f.name = converted_files[Cardinality(Succeeded(k))].name
                      /\ f.data = k

C10_Witness ==
    /\ pc = "leave"
    /\ uploaded_files = << <<"song", ".", "wav">>, <<"song", ".", "mp3">> >>
    /\ results = <<"exit0", "exit0">>
    /\ converted_files[1] = converted_files[2]
    /\ temp_dir.output = {[name |-> <<"song", ".", "m4a">>, data |-> 2]}

====
